---- MODULE Spec2Model ----
(***************************************************************************)
(* Request dispatcher and edge-cache orchestration of the Harnosands HF    *)
(* API worker (src/src/index.js).                                          *)
(*                                                                         *)
(* A request is handled by one invocation of fetch(request, env, ctx).     *)
(* Invocations run concurrently and interleave at every await: the cache   *)
(* lookup, the upstream fetch and the cache write.  The only state shared  *)
(* between invocations is the edge cache (caches.default).                 *)
(*                                                                         *)
(* A URL pathname is modelled as the sequence of its segments, i.e. the    *)
(* pathname is "/" \o s1 \o "/" \o s2 ...; "/" is <<"">> and               *)
(* "/api/events/" is <<"api", "events", "">>.                              *)
(***************************************************************************)
EXTENDS Integers, Sequences, FiniteSets, TLC

\* ---------------------------------------------------------------- bounds
NReq == 2      \* concurrent invocations of arbitrary requests (Spec)
NSame == 3     \* concurrent invocations of one and the same request (SpecSame)
MaxTime == 1   \* instants new Date() can return

\* ------------------------------------------------------------ value sets
Req == 1..(IF NReq > NSame THEN NReq ELSE NSame)
Times == 1..MaxTime
Unset == "<unset>"

IcalUrl == "https://cal.laget.se/HarnosandsHF.ics"
RssUrl == "https://www.laget.se/HarnosandsHF/Home/NewsRss"
Origin == "https://harnosandshf.se"

\* env bindings handed to an invocation
Envs ==
  { [ICAL_URL |-> IcalUrl, NEWS_RSS_URL |-> RssUrl, CORS_ORIGIN |-> Origin],
    [ICAL_URL |-> IcalUrl, NEWS_RSS_URL |-> Unset, CORS_ORIGIN |-> Unset],
    [ICAL_URL |-> Unset, NEWS_RSS_URL |-> RssUrl, CORS_ORIGIN |-> Unset],
    [ICAL_URL |-> Unset, NEWS_RSS_URL |-> Unset, CORS_ORIGIN |-> Origin] }

\* inbound requests: method, pathname (segments) and query string
Pathnames ==
  { <<"">>,
    <<"api", "events">>, <<"api", "events", "raw">>,
    <<"api", "news">>, <<"api", "news", "raw">>,
    <<"x", "api", "events">>, <<"api", "news", "">>, <<"foo">> }

Requests ==
  [method : {"GET"}, pathname : Pathnames, search : {""}]
    \cup {[method |-> "GET", pathname |-> <<"api", "events">>, search |-> "?limit=1"]}

\* what the upstream feed server can answer: a status and a feed text
Feeds == {"feedA", "feedB"}
UpstreamStatus == {200, 503}

HeaderNames ==
  { "access-control-allow-origin", "access-control-allow-methods",
    "access-control-allow-headers", "content-type", "cache-control" }
Absent == "<absent>"

\* caches.default.match resolving to undefined
None == [status |-> 0, headers |-> [k \in HeaderNames |-> Absent], body |-> [none |-> TRUE]]

\* ------------------------------------------------------- common helpers
\* new Response(body, {status, headers}): a string body without an explicit
\* content-type gets text/plain;charset=UTF-8.
Response(body, status, headers) ==
  [status |-> status,
   headers |-> [k \in HeaderNames |->
                 IF k \in DOMAIN headers THEN headers[k]
                 ELSE IF k = "content-type" /\ DOMAIN body = {"text"}
                      THEN "text/plain;charset=UTF-8"
                      ELSE Absent],
   body |-> body]

corsHeaders(env) ==
  LET allow == IF env.CORS_ORIGIN = Unset THEN "*" ELSE env.CORS_ORIGIN
  IN  [k \in { "access-control-allow-origin", "access-control-allow-methods",
               "access-control-allow-headers" } |->
        CASE k = "access-control-allow-origin" -> allow
          [] k = "access-control-allow-methods" -> "GET, HEAD, OPTIONS"
          [] k = "access-control-allow-headers" -> "Content-Type, Cache-Control"]

withCORSKeep(res, cors) == res

withCORS(res, cors) ==
  [res EXCEPT !.headers =
     [k \in HeaderNames |-> IF k \in DOMAIN cors THEN cors[k] ELSE res.headers[k]]]

Merge(f, g) == [k \in DOMAIN f \cup DOMAIN g |-> IF k \in DOMAIN g THEN g[k] ELSE f[k]]

jsonResponse(obj, cors, status) ==
  Response(obj, status,
           Merge(cors, [k \in {"content-type"} |-> "application/json; charset=utf-8"]))

badRequest(msg, cors) == jsonResponse([error |-> msg], cors, 400)

CacheControl ==
  [k \in {"cache-control"} |-> "public, max-age=600, stale-while-revalidate=86400"]

\* res.ok of the upstream response
OkAlways(status) == TRUE

Ok(status) == status \in 200..299

\* !env.X
MissingNever(v) == FALSE

Missing(v) == v = Unset

\* if (cached)
CachedNever(entry) == FALSE

Cached(entry) == entry # None

\* ------------------------------------------------------------ edge cache
CacheKey(request) == <<request.method, request.pathname, request.search>>
Keys == {CacheKey(q) : q \in Requests}

fromEdgeCache(c, request) == c[CacheKey(request)]

saveToEdgeCacheDrop(c, request, response) == c

saveToEdgeCache(c, request, response) == [c EXCEPT ![CacheKey(request)] = response]

\* -------------------------------------------------------------- routing
RECURSIVE StripTrailingSlashes(_)
StripTrailingSlashes(p) ==
  IF p # <<>> /\ p[Len(p)] = ""
  THEN StripTrailingSlashes(SubSeq(p, 1, Len(p) - 1))
  ELSE p

EndsWith(p, suffix) ==
  /\ Len(p) >= Len(suffix)
  /\ SubSeq(p, Len(p) - Len(suffix) + 1, Len(p)) = suffix

Route(pathname) ==
  LET path == StripTrailingSlashes(pathname)
  IN  IF path = <<"">> THEN "health"
      ELSE IF EndsWith(path, <<"api", "events", "raw">>) THEN "rawICS"
      ELSE IF EndsWith(path, <<"api", "news", "raw">>) THEN "rawRSS"
      ELSE IF EndsWith(path, <<"api", "events">>) THEN "eventsJSON"
      ELSE IF EndsWith(path, <<"api", "news">>) THEN "newsJSON"
      ELSE "notFound"

Operations == {"eventsJSON", "rawICS", "newsJSON", "rawRSS"}

\* the env variable an operation requires
UrlOf(op, env) == IF op \in {"eventsJSON", "rawICS"} THEN env.ICAL_URL ELSE env.NEWS_RSS_URL
MissingMsg(op) ==
  IF op \in {"eventsJSON", "rawICS"} THEN "Missing ICAL_URL env" ELSE "Missing NEWS_RSS_URL env"
FailedMsg(op) ==
  IF op \in {"eventsJSON", "rawICS"} THEN "Failed to fetch ICS" ELSE "Failed to fetch RSS"
RawType(op) ==
  IF op = "rawICS" THEN "text/calendar; charset=utf-8" ELSE "application/rss+xml; charset=utf-8"

\* The 200 response an operation builds from the upstream text at instant now.
\* The JSON payload is kept as the triple it is computed from: the parsed feed,
\* the query string that limits/filters it and the instant of computation.
Build(op, request, cors, text, now) ==
  IF op \in {"eventsJSON", "newsJSON"}
  THEN [jsonResponse([updatedAt |-> now, parsed |-> text, query |-> request.search],
                     cors, 200)
          EXCEPT !.headers["cache-control"] = CacheControl["cache-control"]]
  ELSE Response([raw |-> text], 200,
                Merge(cors, Merge([k \in {"content-type"} |-> RawType(op)], CacheControl)))

\* ---------------------------------------------------------------- state
VARIABLES
  run,      \* the load of this run: how many invocations, carrying which requests
  cache,    \* caches.default: cache key -> stored response, or None
  pc,       \* where each invocation stands
  req,      \* the request of each invocation
  env,      \* the env bindings it was invoked with
  seen,     \* what its cache lookup resolved to
  up,       \* how its upstream fetch ended: "none", "ok", "status", "network"
  res,      \* the response it built on a miss
  resp,     \* the response it returned to the client
  calls,    \* collaborator calls it issued: match, fetch, parse, put
  putEnd,   \* how its cache write ended: "none", "pending", "stored", "rejected"
  before,   \* the invocations that had returned when it started
  gone,     \* what happened to the entry it stored: "evicted", "overwritten"
  job       \* a computation of the parsers and helpers studied on its own

web == <<run, cache, pc, req, env, seen, up, res, resp, calls, putEnd, before, gone>>
vars == <<web, job>>

NoJob == [stage |-> "none"]

NoCalls == [match |-> 0, fetch |-> 0, parse |-> 0, put |-> 0]
NoReq == [method |-> "", pathname |-> <<>>, search |-> ""]
NoEnv == [ICAL_URL |-> Unset, NEWS_RSS_URL |-> Unset, CORS_ORIGIN |-> Unset]

Idle ==
  /\ cache = [k \in Keys |-> None]
  /\ pc = [r \in Req |-> "idle"]
  /\ req = [r \in Req |-> NoReq]
  /\ env = [r \in Req |-> NoEnv]
  /\ seen = [r \in Req |-> None]
  /\ up = [r \in Req |-> "none"]
  /\ res = [r \in Req |-> None]
  /\ resp = [r \in Req |-> None]
  /\ calls = [r \in Req |-> NoCalls]
  /\ putEnd = [r \in Req |-> "none"]
  /\ before = [r \in Req |-> {}]
  /\ gone = [r \in Req |-> {}]

\* NReq invocations, each carrying any request
Init ==
  /\ run = [slots |-> NReq, pool |-> Requests]
  /\ Idle
  /\ job = NoJob

\* NSame invocations, all carrying the same request
InitSame ==
  /\ run \in {[slots |-> NSame, pool |-> {q}] : q \in Requests}
  /\ Idle
  /\ job = NoJob

Op(r) == Route(req[r].pathname)
cors(r) == corsHeaders(env[r])

\* fetch(request, env, ctx) up to its first await: routing, the configuration
\* check of the operation, and the call of caches.default.match.
Start(r, request, e) ==
  /\ pc[r] = "idle"
  /\ r <= run.slots
  /\ request \in run.pool
  /\ \A q \in Req : q < r => pc[q] # "idle"
  /\ req' = [req EXCEPT ![r] = request]
  /\ env' = [env EXCEPT ![r] = e]
  /\ before' = [before EXCEPT ![r] = {q \in Req : pc[q] = "done"}]
  /\ LET op == Route(request.pathname)
         c == corsHeaders(e)
     IN  IF op = "health"
         THEN /\ resp' = [resp EXCEPT ![r] =
                           Response([text |-> "OK"], 200,
                                    Merge(c, [k \in {"content-type"} |-> "text/plain"]))]
              /\ pc' = [pc EXCEPT ![r] = "done"]
              /\ calls' = calls
         ELSE IF op = "notFound"
         THEN /\ resp' = [resp EXCEPT ![r] = Response([text |-> "Not found"], 404, c)]
              /\ pc' = [pc EXCEPT ![r] = "done"]
              /\ calls' = calls
         ELSE IF Missing(UrlOf(op, e))
         THEN /\ resp' = [resp EXCEPT ![r] = badRequest(MissingMsg(op), c)]
              /\ pc' = [pc EXCEPT ![r] = "done"]
              /\ calls' = calls
         ELSE /\ resp' = resp
              /\ pc' = [pc EXCEPT ![r] = "match"]
              /\ calls' = [calls EXCEPT ![r].match = @ + 1]
  /\ UNCHANGED <<run, cache, seen, up, res, putEnd, gone, job>>

\* caches.default.match resolves: a hit is returned with the CORS headers of
\* this invocation, a miss calls the upstream fetch.
Match(r) ==
  /\ pc[r] = "match"
  /\ LET cached == fromEdgeCache(cache, req[r])
     IN  /\ seen' = [seen EXCEPT ![r] = cached]
         /\ IF Cached(cached)
            THEN /\ resp' = [resp EXCEPT ![r] = withCORS(cached, cors(r))]
                 /\ pc' = [pc EXCEPT ![r] = "done"]
                 /\ calls' = calls
            ELSE /\ resp' = resp
                 /\ pc' = [pc EXCEPT ![r] = "fetch"]
                 /\ calls' = [calls EXCEPT ![r].fetch = @ + 1]
  /\ UNCHANGED <<run, cache, req, env, up, res, putEnd, before, gone, job>>

\* The upstream fetch resolves with a response: not ok gives the 502; ok has
\* its text read, the response built and caches.default.put called.
FetchResponse(r, status, text, now) ==
  /\ pc[r] = "fetch"
  /\ up' = [up EXCEPT ![r] = IF status \in 200..299 THEN "ok" ELSE "status"]
  /\ IF ~Ok(status)
     THEN /\ resp' = [resp EXCEPT ![r] = Response([text |-> FailedMsg(Op(r))], 502, cors(r))]
          /\ pc' = [pc EXCEPT ![r] = "done"]
          /\ UNCHANGED <<res, calls, putEnd>>
     ELSE /\ res' = [res EXCEPT ![r] = Build(Op(r), req[r], cors(r), text, now)]
          /\ calls' = [calls EXCEPT ![r].put = @ + 1,
                                    ![r].parse = IF Op(r) \in {"eventsJSON", "newsJSON"}
                                                 THEN @ + 1 ELSE @]
          /\ putEnd' = [putEnd EXCEPT ![r] = "pending"]
          /\ pc' = [pc EXCEPT ![r] = "put"]
          /\ resp' = resp
  /\ UNCHANGED <<run, cache, req, env, seen, before, gone, job>>

\* The upstream fetch rejects (network failure): nothing catches it, the
\* invocation ends with the exception.
FetchReject(r) ==
  /\ pc[r] = "fetch"
  /\ up' = [up EXCEPT ![r] = "network"]
  /\ pc' = [pc EXCEPT ![r] = "threw"]
  /\ UNCHANGED <<run, cache, req, env, seen, res, resp, calls, putEnd, before, gone, job>>

\* caches.default.put stores the clone of the response.
PutOk(r) ==
  /\ pc[r] = "put"
  /\ cache' = saveToEdgeCache(cache, req[r], res[r])
  /\ putEnd' = [putEnd EXCEPT ![r] = "stored"]
  /\ pc' = [pc EXCEPT ![r] = "ret"]
  /\ gone' = [q \in Req |->
               IF q # r /\ putEnd[q] = "stored" /\ CacheKey(req[q]) = CacheKey(req[r])
               THEN gone[q] \cup {"overwritten"} ELSE gone[q]]
  /\ UNCHANGED <<run, req, env, seen, up, res, resp, calls, before, job>>

\* caches.default.put rejects: the awaited saveToEdgeCache throws.
PutReject(r) ==
  /\ pc[r] = "put"
  /\ putEnd' = [putEnd EXCEPT ![r] = "rejected"]
  /\ pc' = [pc EXCEPT ![r] = "threw"]
  /\ UNCHANGED <<run, cache, req, env, seen, up, res, resp, calls, before, gone, job>>

\* return res, after the awaited saveToEdgeCache.
Return(r) ==
  /\ pc[r] = "ret"
  /\ resp' = [resp EXCEPT ![r] = res[r]]
  /\ pc' = [pc EXCEPT ![r] = "done"]
  /\ UNCHANGED <<run, cache, req, env, seen, up, res, calls, putEnd, before, gone, job>>

\* The platform evicts (or expires) an entry of the edge cache.
Evict(k) ==
  /\ cache[k] # None
  /\ cache' = [cache EXCEPT ![k] = None]
  /\ gone' = [q \in Req |->
               IF putEnd[q] = "stored" /\ CacheKey(req[q]) = k
               THEN gone[q] \cup {"evicted"} ELSE gone[q]]
  /\ UNCHANGED <<run, pc, req, env, seen, up, res, resp, calls, putEnd, before, job>>

Next ==
  \/ \E r \in Req, request \in Requests, e \in Envs : Start(r, request, e)
  \/ \E r \in Req : Match(r)
  \/ \E r \in Req, status \in UpstreamStatus, text \in Feeds, now \in Times :
       FetchResponse(r, status, text, now)
  \/ \E r \in Req : FetchReject(r)
  \/ \E r \in Req : PutOk(r)
  \/ \E r \in Req : PutReject(r)
  \/ \E r \in Req : Return(r)
  \/ \E k \in Keys : Evict(k)

Spec == Init /\ [][Next]_vars

SpecSame == InitSame /\ [][Next]_vars

\* ============================================================ properties
Started(r) == pc[r] # "idle"
Returned(r) == pc[r] = "done"
Threw(r) == pc[r] = "threw"
Finished(r) == Returned(r) \/ Threw(r)

\* the value access-control-allow-origin must have for invocation r
AllowOrigin(r) == IF env[r].CORS_ORIGIN = Unset THEN "*" ELSE env[r].CORS_ORIGIN

HasCORS(response, r) ==
  /\ response.headers["access-control-allow-origin"] = AllowOrigin(r)
  /\ response.headers["access-control-allow-methods"] = "GET, HEAD, OPTIONS"
  /\ response.headers["access-control-allow-headers"] = "Content-Type, Cache-Control"

CORSNames ==
  { "access-control-allow-origin", "access-control-allow-methods",
    "access-control-allow-headers" }

\* the upstream URL the operation of r needs is absent from its env
UrlAbsent(r) ==
  \/ Op(r) \in {"eventsJSON", "rawICS"} /\ env[r].ICAL_URL = Unset
  \/ Op(r) \in {"newsJSON", "rawRSS"} /\ env[r].NEWS_RSS_URL = Unset

\* C1: on a miss with a successful upstream fetch, a rejected cache write
\* does not change what the client receives: it still gets the 200 response
\* built from the upstream text, and no error.
C1_PutFailureNotSurfaced ==
  \A r \in Req :
    putEnd[r] = "rejected" =>
      /\ ~Threw(r)
      /\ Returned(r) => resp[r] = res[r] /\ resp[r].status = 200

\* C2: on a miss the response can be returned while the cache write of the
\* request is still pending: returning never waits for the write to end.
C2_ResponseNotBlockedOnWrite ==
  \A r \in Req :
    putEnd[r] = "pending" /\ ~Finished(r) => ENABLED Return(r)

\* C3: when the upstream URL is configured and the cache lookup finds an entry
\* for the request, the invocation returns that entry with the CORS headers of
\* the service set on it, and makes no upstream fetch, no parse and no cache
\* write.
C3_HitServedFromCache ==
  \A r \in Req :
    Op(r) \in Operations /\ ~UrlAbsent(r) /\ seen[r] # None
    => /\ Returned(r)
       /\ resp[r].status = seen[r].status
       /\ resp[r].body = seen[r].body
       /\ HasCORS(resp[r], r)
       /\ \A k \in HeaderNames \ CORSNames : resp[r].headers[k] = seen[r].headers[k]
       /\ calls[r] = [NoCalls EXCEPT !.match = 1]

C3_Witness ==
  \E r \in Req :
    /\ Returned(r) /\ seen[r] # None /\ Op(r) = "rawRSS"
    /\ seen[r].headers["access-control-allow-origin"] # AllowOrigin(r)

\* An invocation that returned the 200 response it built on a miss.
Miss200(r) == Returned(r) /\ putEnd[r] = "stored"

\* r2 carries the request of r1, started after r1 was answered on a miss, and
\* runs under the same configuration: same CORS origin, upstream URL present.
Later(r1, r2) ==
  /\ Miss200(r1)
  /\ r1 \in before[r2]
  /\ req[r2] = req[r1]
  /\ env[r2].CORS_ORIGIN = env[r1].CORS_ORIGIN
  /\ ~UrlAbsent(r2)

\* r2 was served the answer of r1 without an upstream fetch of its own.
ServedAs(r1, r2) ==
  /\ pc[r2] \in {"match", "done"}
  /\ calls[r2].fetch = 0
  /\ Returned(r2) => resp[r2] = resp[r1]

\* C4 as stated: once a request was answered on a miss, every later identical
\* request (the entry not evicted, the same configuration) gets the same body
\* and headers and causes no further upstream fetch.
C4_LaterIdenticalSame ==
  \A r1, r2 \in Req :
    Later(r1, r2) /\ "evicted" \notin gone[r1] => ServedAs(r1, r2)

\* C4 as amended: once a request was answered on a miss, every later identical
\* request (the entry not evicted, the same configuration) gets the same body
\* and headers and makes no upstream fetch, provided no other invocation stored
\* an entry for the same request after the first one did.
C4_LaterIdenticalSameUnlessOverwritten ==
  \A r1, r2 \in Req :
    Later(r1, r2) /\ gone[r1] = {} => ServedAs(r1, r2)

C4_Witness ==
  \E r1, r2 \in Req :
    /\ Later(r1, r2) /\ gone[r1] = {}
    /\ Returned(r2) /\ seen[r2] = res[r1]
    /\ \E r3 \in Req \ {r1, r2} : putEnd[r3] = "rejected" /\ req[r3] = req[r1]

\* C5: when the upstream URL the operation needs is absent the request gets
\* one 400 response with the JSON body {error: "Missing <NAME> env"}, and the
\* invocation makes no upstream fetch, no cache read and no cache write.
C5_MissingConfig400 ==
  \A r \in Req :
    Started(r) /\ UrlAbsent(r)
    => /\ Returned(r)
       /\ resp[r].status = 400
       /\ resp[r].headers["content-type"] = "application/json; charset=utf-8"
       /\ Op(r) \in {"eventsJSON", "rawICS"} => resp[r].body = [error |-> "Missing ICAL_URL env"]
       /\ Op(r) \in {"newsJSON", "rawRSS"} => resp[r].body = [error |-> "Missing NEWS_RSS_URL env"]
       /\ calls[r] = NoCalls

C5_Witness ==
  \E r1, r2 \in Req :
    /\ Returned(r1) /\ UrlAbsent(r1) /\ Op(r1) = "rawICS" /\ env[r1].NEWS_RSS_URL # Unset
    /\ Returned(r2) /\ UrlAbsent(r2) /\ Op(r2) = "newsJSON" /\ env[r2].ICAL_URL # Unset

\* C6: on a miss every upstream fetch failure, a non-2xx status as well as a
\* network failure of the fetch, gives the caller a 502 plain-text response
\* carrying the CORS headers.
C6_FetchFailureGives502 ==
  \A r \in Req :
    up[r] \in {"status", "network"}
    => /\ Returned(r)
       /\ resp[r].status = 502
       /\ DOMAIN resp[r].body = {"text"}
       /\ HasCORS(resp[r], r)

\* C7: every invocation makes at most one upstream fetch, and it writes to the
\* edge cache only after its own upstream fetch succeeded: an invocation whose
\* fetch failed, or that ended in a 400 or 404, never writes.
C7_OneFetchWriteOnlyAfterSuccess ==
  \A r \in Req :
    /\ calls[r].fetch <= 1
    /\ calls[r].put <= 1
    /\ calls[r].put = 1 => up[r] = "ok" /\ calls[r].fetch = 1
    /\ up[r] \in {"status", "network"} => calls[r].put = 0 /\ putEnd[r] = "none"
    /\ Returned(r) /\ resp[r].status \in {400, 404, 502} =>
         calls[r].put = 0 /\ putEnd[r] = "none"

C7_Witness ==
  \E r1, r2 \in Req :
    /\ r1 # r2 /\ req[r1] = req[r2]
    /\ pc[r1] = "put" /\ calls[r1].put = 1
    /\ up[r2] = "status" /\ Returned(r2) /\ r2 \notin before[r1] /\ r1 \notin before[r2]

\* C8: a request for the root path "/" gets a 200 response with content type
\* text/plain and body "OK", with the CORS headers, without any cache access
\* or upstream fetch.
C8_RootIsOK ==
  \A r \in Req :
    Started(r) /\ req[r].pathname = <<"">>
    => /\ Returned(r)
       /\ resp[r].status = 200
       /\ resp[r].body = [text |-> "OK"]
       /\ resp[r].headers["content-type"] = "text/plain"
       /\ HasCORS(resp[r], r)
       /\ calls[r] = NoCalls

\* the pathname, trailing slashes aside, is one of the four operation paths
DocumentedOperation(pathname) ==
  StripTrailingSlashes(pathname) \in
    { <<"api", "events">>, <<"api", "events", "raw">>,
      <<"api", "news">>, <<"api", "news", "raw">> }

\* C9: every request whose path is none of the five documented paths gets a
\* 404 and causes no cache access and no upstream fetch; a path that only ends
\* with a documented path under another prefix is not dispatched.
C9_UnknownPath404 ==
  \A r \in Req :
    Started(r) /\ req[r].pathname # <<"">> /\ ~DocumentedOperation(req[r].pathname)
    => /\ Returned(r)
       /\ resp[r].status = 404
       /\ calls[r] = NoCalls

\* C10: every response an invocation returns (200 on a miss, the cached
\* response on a hit, 400, 404, 502) carries the three CORS headers, the
\* allowed origin being that of the invocation's own configuration even when
\* the cached entry was stored under another.
C10_EveryResponseHasCORS ==
  \A r \in Req : Returned(r) => HasCORS(resp[r], r)

C10_Witness ==
  \E r \in Req :
    /\ Returned(r) /\ seen[r] # None
    /\ seen[r].headers["access-control-allow-origin"] = Origin
    /\ resp[r].headers["access-control-allow-origin"] = "*"

\* ------------------------------------------------------------------
\* Query parameters `days` and `limit` (index.js:55, 65, 116, 175, 176)
\* ------------------------------------------------------------------

MaxChars == 4          \* longest query value drawn

\* The characters a query value is made of: digits, the sign, the decimal
\* point and a letter.
Digits == {"0", "1", "5", "9"}
DigitVal(c) == CASE c = "0" -> 0 [] c = "1" -> 1 [] c = "5" -> 5 [] c = "9" -> 9
Strings == UNION {[1..n -> Digits \cup {"-", ".", "a"}] : n \in 0..MaxChars}

\* url.searchParams.get(name): null when the parameter is absent, else its
\* string value.
NoParam == [present |-> FALSE, s |-> <<>>]
Param(s) == [present |-> TRUE, s |-> s]

\* JavaScript values of the computation: null, NaN, or a finite decimal
\* number  (-1)^neg * whole.frac , frac without trailing zeros.
Null == [t |-> "null", neg |-> FALSE, whole |-> 0, frac |-> <<>>]
NaN == [t |-> "nan", neg |-> FALSE, whole |-> 0, frac |-> <<>>]
Num(neg, whole, frac) == [t |-> "num", neg |-> neg, whole |-> whole, frac |-> frac]
Whole(k) == Num(FALSE, k, <<>>)

AllDigits(s) == \A i \in 1..Len(s) : s[i] \in Digits

RECURSIVE DecimalValue(_)
DecimalValue(s) ==
  IF s = <<>> THEN 0
  ELSE 10 * DecimalValue(SubSeq(s, 1, Len(s) - 1)) + DigitVal(s[Len(s)])

RECURSIVE DropTrailingZeros(_)
DropTrailingZeros(s) ==
  IF s # <<>> /\ s[Len(s)] = "0" THEN DropTrailingZeros(SubSeq(s, 1, Len(s) - 1))
  ELSE s

\* Number(v) of a string: the empty string is 0; an optional sign followed by
\* digits with at most one decimal point and at least one digit is that
\* decimal number; anything else is NaN.
Number(s) ==
  LET neg  == s # <<>> /\ Head(s) = "-"
      u    == IF neg THEN Tail(s) ELSE s
      dots == {i \in 1..Len(u) : u[i] = "."}
      d    == IF dots = {} THEN Len(u) + 1
              ELSE CHOOSE i \in dots : \A j \in dots : i <= j
      w    == SubSeq(u, 1, d - 1)
      f    == SubSeq(u, d + 1, Len(u))
  IN  IF s = <<>> THEN Whole(0)
      ELSE IF AllDigits(w) /\ AllDigits(f) /\ Len(w) + Len(f) > 0
      THEN Num(neg, DecimalValue(w), DropTrailingZeros(f))
      ELSE NaN

\* function int(v)
int(v) ==
  IF ~v.present THEN Null
  ELSE LET n == Number(v.s) IN IF n.t = "num" THEN n ELSE Null

\* a ?? b
OrElse(a, b) == IF a = Null THEN b ELSE a

\* n < k and n > k for a number n and a natural k
Below(n, k) == IF n.neg THEN k > 0 \/ n.whole > 0 \/ n.frac # <<>> ELSE n.whole < k
Above(n, k) == ~n.neg /\ (n.whole > k \/ (n.whole = k /\ n.frac # <<>>))

\* Math.min(k, n) and Math.max(k, n) for a natural k and a number n
MathMin(k, n) == IF Above(n, k) THEN Whole(k) ELSE n
MathMax(k, n) == IF Below(n, k) THEN Whole(k) ELSE n

\* function clamp(n, min, max)
clamp(n, min, max) == MathMax(min, MathMin(max, n))

DEFAULT_DAYS_AHEAD == 365
MAX_LIMIT == 500
MAX_DAYS == 3650

\* index.js:55
EffectiveDays(days) == clamp(OrElse(int(days), Whole(DEFAULT_DAYS_AHEAD)), 1, MAX_DAYS)
\* index.js:65 and 116, length = upcoming.length / items.length
EffectiveLimit(limit, length) == clamp(OrElse(int(limit), Whole(length)), 1, MAX_LIMIT)

\* The query strings drawn: one of the two parameters absent, the other
\* absent or any string; and the number of events / items that matched.
Raw == {NoParam} \cup {Param(s) : s \in Strings}
Queries ==
  {[days |-> a, limit |-> NoParam] : a \in Raw} \cup
  {[days |-> NoParam, limit |-> b] : b \in Raw}
Lengths == {0, 1, 3, 500, 501}

InitParam ==
  /\ run = [slots |-> 0, pool |-> {}]
  /\ Idle
  /\ job \in {[stage |-> "query", query |-> q, length |-> n] :
                q \in Queries, n \in Lengths}

\* eventsJSON, lines 55 and 65
EventsParams ==
  /\ job.stage = "query"
  /\ job' = [stage |-> "events", query |-> job.query, length |-> job.length,
             days  |-> EffectiveDays(job.query.days),
             limit |-> EffectiveLimit(job.query.limit, job.length)]
  /\ UNCHANGED web

\* newsJSON, line 116
NewsParams ==
  /\ job.stage = "query"
  /\ job' = [stage |-> "news", query |-> job.query, length |-> job.length,
             limit |-> EffectiveLimit(job.query.limit, job.length)]
  /\ UNCHANGED web

SpecParam == InitParam /\ [][EventsParams \/ NewsParams]_vars

\* A decimal numeral: an optional sign, then digits with at most one decimal
\* point and at least one digit.
Numeral(s) ==
  LET u == IF s # <<>> /\ s[1] = "-" THEN Tail(s) ELSE s
  IN  /\ \A i \in 1..Len(u) : u[i] \in Digits \cup {"."}
      /\ Cardinality({i \in 1..Len(u) : u[i] = "."}) <= 1
      /\ \E i \in 1..Len(u) : u[i] \in Digits

\* The value the caller gave, or the default when the parameter is missing or
\* not a numeral
Given(v, default) == IF v.present /\ Numeral(v.s) THEN Number(v.s) ELSE Whole(default)

\* The nearest value of [lo, hi]
Nearest(n, lo, hi) ==
  IF Below(n, lo) THEN Whole(lo) ELSE IF Above(n, hi) THEN Whole(hi) ELSE n

\* C11: the effective days is the given value brought into [1, 3650], 365
\* when the parameter is missing or not numeric; the effective limit is the
\* given value brought into [1, 500], the number of matches when the
\* parameter is missing or not numeric.
C11_ClampedOrDefault ==
  /\ job.stage = "events" =>
       /\ job.days = Nearest(Given(job.query.days, DEFAULT_DAYS_AHEAD), 1, MAX_DAYS)
       /\ job.limit = Nearest(Given(job.query.limit, job.length), 1, MAX_LIMIT)
  /\ job.stage = "news" =>
       job.limit = Nearest(Given(job.query.limit, job.length), 1, MAX_LIMIT)

\* ------------------------------------------------------------------
\* The JSON payloads of eventsJSON (index.js:54-70) and newsJSON (116-121)
\* ------------------------------------------------------------------

MaxEvents == 3         \* longest parsed list drawn
MaxStart == 6          \* latest start drawn, in half days
MaxLimitChars == 3     \* longest `limit` value drawn

\* Time is counted in half days: 24 * 3600 * 1000 ms is DayLen units.
DayLen == 2
StartTimes == 0..MaxStart
Nows == {DayLen, DayLen + 1}

\* The parsed events / items: element i has identity i and the start drawn.
Parsed(starts) == [i \in 1..Len(starts) |-> [id |-> i, start |-> starts[i]]]
ParsedLists == {Parsed(st) : st \in UNION {[1..n -> StartTimes] : n \in 0..MaxEvents}}

LimitsDrawn ==
  {NoParam} \cup
  {Param(s) : s \in UNION {[1..n -> {"1", "5", ".", "a"}] : n \in 0..MaxLimitChars}}
DaysDrawn == {NoParam, Param(<<"1">>), Param(<<"1", ".", "5">>)}

\* days * 24 * 3600 * 1000, for days a multiple of one half
DaysSpan(days) == DayLen * days.whole + (IF days.frac = <<"5">> THEN 1 ELSE 0)

\* the instant itself in place of the start of its day
startOfDayUTCNow(d) == d

\* function startOfDayUTC(d)
startOfDayUTC(d) == d - (d % DayLen)

\* events.filter(ev => start >= startOfDayUTC(now) && start <= until)
RECURSIVE Filter(_, _, _)
Filter(events, from, until) ==
  IF events = <<>> THEN <<>>
  ELSE LET ev == Head(events)
           rest == Filter(Tail(events), from, until)
       IN  IF ev.start >= from /\ ev.start <= until THEN <<ev>> \o rest ELSE rest

\* .sort((a, b) => new Date(a.start) - new Date(b.start)): a stable sort
RECURSIVE InsertByStart(_, _)
InsertByStart(ev, sorted) ==
  IF sorted = <<>> THEN <<ev>>
  ELSE IF Head(sorted).start <= ev.start
       THEN <<Head(sorted)>> \o InsertByStart(ev, Tail(sorted))
       ELSE <<ev>> \o sorted

RECURSIVE SortByStart(_)
SortByStart(events) ==
  IF events = <<>> THEN <<>>
  ELSE InsertByStart(events[Len(events)], SortByStart(SubSeq(events, 1, Len(events) - 1)))

\* list.slice(0, limit): the end index is truncated to an integer
Slice(list, limit) ==
  SubSeq(list, 1, IF limit.whole < Len(list) THEN limit.whole ELSE Len(list))

\* eventsJSON, lines 54-70
EventsPayloadOf(events, query, now) ==
  LET days     == EffectiveDays(query.days)
      until    == now + DaysSpan(days)
      upcoming == SortByStart(Filter(events, startOfDayUTC(now), until))
      limit    == EffectiveLimit(query.limit, Len(upcoming))
  IN  [updatedAt |-> now,
       count     |-> MathMin(Len(upcoming), limit),
       events    |-> Slice(upcoming, limit)]

\* newsJSON, lines 116-121
NewsPayloadOf(items, query, now) ==
  LET limit == EffectiveLimit(query.limit, Len(items))
  IN  [updatedAt |-> now,
       count     |-> MathMin(Len(items), limit),
       items     |-> Slice(items, limit)]

InitPayload ==
  /\ run = [slots |-> 0, pool |-> {}]
  /\ Idle
  /\ job \in {[stage |-> "parsed", parsed |-> p, now |-> t,
               query |-> [days |-> d, limit |-> l]] :
                p \in ParsedLists, t \in Nows, d \in DaysDrawn, l \in LimitsDrawn}

EventsPayload ==
  /\ job.stage = "parsed"
  /\ job' = [stage |-> "events", parsed |-> job.parsed, now |-> job.now, query |-> job.query,
             payload |-> EventsPayloadOf(job.parsed, job.query, job.now)]
  /\ UNCHANGED web

\* newsJSON reads no `days`: it is run on the queries without one
NewsPayload ==
  /\ job.stage = "parsed"
  /\ job.query.days = NoParam
  /\ job' = [stage |-> "news", parsed |-> job.parsed, now |-> job.now, query |-> job.query,
             payload |-> NewsPayloadOf(job.parsed, job.query, job.now)]
  /\ UNCHANGED web

SpecPayload == InitPayload /\ [][EventsPayload \/ NewsPayload]_vars

\* C12: in every payload, count is the number of elements of the returned
\* events / items array.
C12_CountIsLength ==
  /\ job.stage = "events" => job.payload.count = Whole(Len(job.payload.events))
  /\ job.stage = "news" => job.payload.count = Whole(Len(job.payload.items))

InWindow(ev, now, days) ==
  /\ ev.start >= now - (now % DayLen)
  /\ ev.start <= now + DaysSpan(days)

\* C13: every returned event starts on or after 00:00 UTC of now's day and
\* on or before now + days * 24h, the events are in non-decreasing order of
\* start, and the list is the first min(limit, matches) of the parsed events
\* in the window in that order: an event of the window is left out only
\* behind every returned one.
C13_WindowSortedFirst ==
  job.stage = "events" =>
    LET out      == job.payload.events
        days     == EffectiveDays(job.query.days)
        matching == {i \in 1..Len(job.parsed) : InWindow(job.parsed[i], job.now, days)}
        limit    == EffectiveLimit(job.query.limit, Cardinality(matching))
    IN  /\ \A k \in 1..Len(out) : out[k].id \in matching /\ out[k] = job.parsed[out[k].id]
        /\ \A k, l \in 1..Len(out) :
             k < l => out[k].start <= out[l].start /\ out[k].id # out[l].id
        /\ Whole(Len(out)) = MathMin(Cardinality(matching), limit)
        /\ \A i \in matching :
             (\A k \in 1..Len(out) : out[k].id # i) =>
               \A k \in 1..Len(out) : out[k].start <= job.parsed[i].start

\* ------------------------------------------------------------------
\* Date normalization (index.js:218-270)
\* ------------------------------------------------------------------

MaxDay == 2            \* latest calendar day drawn

\* Instants and wall-clock times are counted in hours: calendar day d at
\* hour h is HoursPerDay * d + h.
HoursPerDay == 24
CalendarDays == 0..MaxDay
NoDay == MaxDay + 1    \* eight digits that are no calendar date (month 13)
Hours == {0, 1, 2, 23}
NoHour == 25           \* six digits that are no time of day (hour 25)

\* The values of cur.DTSTART / cur.DTEND, by the pattern they match:
\* undefined, "", YYYYMMDD, YYYYMMDDThhmmssZ, YYYYMMDDThhmmss, anything else.
Token(shape, day, hour) == [shape |-> shape, day |-> day, hour |-> hour]
Tokens ==
  {Token(s, 0, 0) : s \in {"undefined", "empty", "other"}} \cup
  {Token("date", d, 0) : d \in CalendarDays \cup {NoDay}} \cup
  {Token(s, d, h) : s \in {"utc", "local"}, d \in CalendarDays \cup {NoDay},
                    h \in Hours \cup {NoHour}}

Truthy(tok) == tok.shape \notin {"undefined", "empty"}
dateOnly(tok) == tok.shape = "date"
dateTimeZ(tok) == tok.shape = "utc"
dateTimeLocal(tok) == tok.shape = "local"

\* The runtime's time zone: its UTC offset before and from the instant `at`
\* on (a zone without a transition has the same offset on both sides).
Zone(off1, off2, at) == [before |-> off1, after |-> off2, at |-> at]
UTC == Zone(0, 0, 0)
Zones ==
  { UTC,
    Zone(1, 1, 0),                        \* fixed, one hour east
    Zone(1, 2, HoursPerDay + 1),          \* day 1: 02:00 local jumps to 03:00
    Zone(-5, -4, HoursPerDay + 5),        \* day 1: 00:00 local jumps to 01:00
    Zone(-4, -5, HoursPerDay + 6) }       \* day 1: 02:00 local falls back to 01:00
OffsetAt(z, t) == IF t < z.at THEN z.before ELSE z.after

\* Date values: a time value, or Invalid Date
DateOf(t) == [valid |-> TRUE, t |-> t]
InvalidDate == [valid |-> FALSE, t |-> 0]

\* The date-time string built from the digits names a real date and time
RealDate(day, hour) == day \in CalendarDays /\ hour \in 0..(HoursPerDay - 1)

\* new Date(`${y}-${m}-${d}T${hh}:${mm}:${ss}Z`)
NewDateUTC(day, hour) ==
  IF RealDate(day, hour) THEN DateOf(HoursPerDay * day + hour) ELSE InvalidDate

\* new Date(`${y}-${m}-${d}T${hh}:${mm}:${ss}`): local time; a repeated
\* local time and a skipped one are read with the offset before the transition
NewDateLocal(day, hour, z) ==
  IF ~RealDate(day, hour) THEN InvalidDate
  ELSE LET local  == HoursPerDay * day + hour
           early  == local - z.before
           late   == local - z.after
       IN  IF late >= z.at /\ ~(early < z.at) THEN DateOf(late) ELSE DateOf(early)

\* dt.getTimezoneOffset(), in hours
getTimezoneOffset(dt, z) == 0 - OffsetAt(z, dt.t)

\* function isoFromICSUTC(icsDT); an Invalid Date makes toISOString throw
isoFromICSUTC(tok) == NewDateUTC(tok.day, tok.hour)

\* function toUTCStringFromLocalDateTime(icsLocal)
toUTCStringFromLocalDateTime(tok, z) ==
  LET dt == NewDateLocal(tok.day, tok.hour, z)
  IN  IF dt.valid THEN DateOf(dt.t - getTimezoneOffset(dt, z)) ELSE InvalidDate

\* function toUTCStringFromLocalParts(yyyymmdd, hhmmss), hhmmss = "000000"
toUTCStringFromLocalParts(tok, hour, z) ==
  LET dt == NewDateLocal(tok.day, hour, z)
  IN  IF dt.valid THEN DateOf(dt.t - getTimezoneOffset(dt, z)) ELSE InvalidDate

\* What normalizeDates returns, or the RangeError of toISOString
Normalized(start, end, isAllDay) ==
  IF start.valid /\ end.valid
  THEN [threw |-> FALSE, start |-> start.t, end |-> end.t, isAllDay |-> isAllDay]
  ELSE [threw |-> TRUE, start |-> 0, end |-> 0, isAllDay |-> FALSE]

\* normalizeDates reading DTEND only when it is in DTSTART's own encoding
normalizeDatesSameEncoding(dtstart, dtend, z, now) ==
  IF Truthy(dtstart) /\ dateOnly(dtstart)
  THEN LET start == toUTCStringFromLocalParts(dtstart, 0, z)
       IN  Normalized(start,
                      IF Truthy(dtend) /\ dateOnly(dtend)
                      THEN toUTCStringFromLocalParts(dtend, 0, z)
                      ELSE IF start.valid THEN DateOf(start.t + HoursPerDay)
                      ELSE InvalidDate,
                      TRUE)
  ELSE IF Truthy(dtstart) /\ dateTimeZ(dtstart)
  THEN LET start == isoFromICSUTC(dtstart)
       IN  Normalized(start,
                      IF Truthy(dtend) /\ dateTimeZ(dtend) THEN isoFromICSUTC(dtend)
                      ELSE start,
                      FALSE)
  ELSE IF Truthy(dtstart) /\ dateTimeLocal(dtstart)
  THEN LET start == toUTCStringFromLocalDateTime(dtstart, z)
       IN  Normalized(start,
                      IF Truthy(dtend) /\ dateTimeLocal(dtend)
                      THEN toUTCStringFromLocalDateTime(dtend, z)
                      ELSE start,
                      FALSE)
  ELSE Normalized(DateOf(now), DateOf(now), FALSE)

\* function normalizeDates(dtstart, dtend), run in zone z at instant now
normalizeDates(dtstart, dtend, z, now) ==
  IF Truthy(dtstart) /\ dateOnly(dtstart)
  THEN LET start == toUTCStringFromLocalParts(dtstart, 0, z)
       IN  Normalized(start,
                      IF Truthy(dtend) /\ dateOnly(dtend)
                      THEN toUTCStringFromLocalParts(dtend, 0, z)
                      ELSE IF start.valid THEN DateOf(start.t + HoursPerDay)
                      ELSE InvalidDate,
                      TRUE)
  ELSE IF Truthy(dtstart) /\ dateTimeZ(dtstart)
  THEN LET start == isoFromICSUTC(dtstart)
       IN  Normalized(start,
                      IF Truthy(dtend)
                      THEN (IF dateTimeZ(dtend) THEN isoFromICSUTC(dtend)
                            ELSE IF dateTimeLocal(dtend)
                            THEN toUTCStringFromLocalDateTime(dtend, z)
                            ELSE isoFromICSUTC(dtstart))
                      ELSE start,
                      FALSE)
  ELSE IF Truthy(dtstart) /\ dateTimeLocal(dtstart)
  THEN LET start == toUTCStringFromLocalDateTime(dtstart, z)
       IN  Normalized(start,
                      IF Truthy(dtend)
                      THEN (IF dateTimeLocal(dtend)
                            THEN toUTCStringFromLocalDateTime(dtend, z)
                            ELSE IF dateTimeZ(dtend) THEN isoFromICSUTC(dtend)
                            ELSE start)
                      ELSE start,
                      FALSE)
  ELSE Normalized(DateOf(now), DateOf(now), FALSE)

\* Two processes, each in its own zone, normalize the same pair of tokens.
Procs == {1, 2}
DateNows == {HoursPerDay + 12}
NotRun == [threw |-> FALSE, start |-> 0, end |-> 0, isAllDay |-> FALSE]

InitDates ==
  /\ run = [slots |-> 0, pool |-> {}]
  /\ Idle
  /\ job \in {[stage |-> "dates", dtstart |-> s, dtend |-> e, now |-> t,
               zone |-> <<z1, z2>>, ran |-> {}, out |-> <<NotRun, NotRun>>] :
                s \in Tokens, e \in Tokens, t \in DateNows, z1 \in Zones, z2 \in Zones}

\* normalizeDates(cur.DTSTART, cur.DTEND) in process p
Normalize(p) ==
  /\ job.stage = "dates"
  /\ p \notin job.ran
  /\ job' = [job EXCEPT
               !.ran = @ \cup {p},
               !.out[p] = normalizeDates(job.dtstart, job.dtend, job.zone[p], job.now)]
  /\ UNCHANGED web

SpecDates == InitDates /\ [][\E p \in Procs : Normalize(p)]_vars

\* C14: an event is all-day exactly when its DTSTART is a bare date; then
\* start is 00:00 UTC of that date in whatever zone the process runs, and end
\* is 00:00 UTC of DTEND's date when DTEND is a bare date, start + 24 hours
\* otherwise.
C14_AllDayMidnightUTC ==
  job.stage = "dates" =>
    \A p \in job.ran :
      LET o == job.out[p]
      IN  ~o.threw =>
            /\ o.isAllDay <=> job.dtstart.shape = "date"
            /\ job.dtstart.shape = "date" =>
                 /\ o.start = HoursPerDay * job.dtstart.day
                 /\ o.end = IF job.dtend.shape = "date"
                            THEN HoursPerDay * job.dtend.day
                            ELSE o.start + HoursPerDay

\* The two zones have no UTC offset in common
OffsetsDiffer(z1, z2) == {z1.before, z1.after} \cap {z2.before, z2.after} = {}

MaxLines == 5          \* most logical lines drawn

\* A logical line: "BEGIN:VEVENT", "END:VEVENT", a line without ":", or
\* left ":" value, left being the ";"-separated name and parameters. The
\* value is carried as text and, for the date properties, as a token.
Undefined == "<undefined>"
IcsLine(kind, left, text, tok) == [kind |-> kind, left |-> left, text |-> text, tok |-> tok]
NoToken == Token("undefined", 0, 0)
BeginVEvent == IcsLine("BEGIN:VEVENT", <<>>, "", NoToken)
EndVEvent == IcsLine("END:VEVENT", <<>>, "", NoToken)
TextLine(left, text) == IcsLine("property", left, text, NoToken)
DateLine(left, tok) == IcsLine("property", left, "", tok)
IcsLines ==
  { BeginVEvent, EndVEvent,
    IcsLine("nocolon", <<>>, "", NoToken),
    TextLine(<<"SUMMARY">>, "a"),
    TextLine(<<"summary", "LANGUAGE=sv">>, "b"),
    TextLine(<<"UID">>, "u"),
    TextLine(<<"BEGIN">>, "VALARM"),
    TextLine(<<"END">>, "VALARM"),
    DateLine(<<"DTSTART">>, Token("date", 1, 0)),
    DateLine(<<"DTSTART">>, Token("utc", 0, NoHour)),
    DateLine(<<"DTEND">>, Token("date", NoDay, 0)) }
IcsTexts == UNION {[1..n -> IcsLines] : n \in 0..MaxLines}

\* left.split(";")[0].toUpperCase()
toUpperCase(name) == IF name = "summary" THEN "SUMMARY" ELSE name
KeyOf(line) == toUpperCase(Head(line.left))

\* let cur: null, or the field map of the open block. Of the map, the
\* entries parseICS reads are kept; a write under another key changes none.
TextKeys == {"SUMMARY", "LOCATION", "URL", "UID"}
DateKeys == {"DTSTART", "DTEND"}
NoCur == [open |-> FALSE, text |-> [k \in TextKeys |-> Undefined],
          date |-> [k \in DateKeys |-> NoToken]]
EmptyCur == [NoCur EXCEPT !.open = TRUE]

\* cur[key] = value
SetField(cur, line) ==
  LET key == KeyOf(line)
  IN  IF key \in TextKeys THEN [cur EXCEPT !.text[key] = line.text]
      ELSE IF key \in DateKeys
      THEN [cur EXCEPT !.date[key] = line.tok]
      ELSE cur

\* cur.SUMMARY || ""
OrEmpty(v) == IF v = Undefined THEN "" ELSE v

\* The event pushed at END:VEVENT, from what normalizeDates returned
EventOf(cur, n) ==
  [start |-> n.start, end |-> n.end, isAllDay |-> n.isAllDay,
   summary  |-> OrEmpty(cur.text["SUMMARY"]),
   location |-> OrEmpty(cur.text["LOCATION"]),
   url      |-> OrEmpty(cur.text["URL"]),
   uid      |-> OrEmpty(cur.text["UID"]),
   calendar |-> "Laget.se"]

\* for (const line of lines) { ... } from line i on; the RangeError of
\* normalizeDates ends the function
RECURSIVE Scan(_, _, _, _, _, _)
Scan(lines, i, cur, events, z, now) ==
  IF i > Len(lines) THEN [threw |-> FALSE, events |-> events]
  ELSE LET line == lines[i]
       IN  IF line.kind = "BEGIN:VEVENT" THEN Scan(lines, i + 1, EmptyCur, events, z, now)
           ELSE IF line.kind = "END:VEVENT"
           THEN IF cur.open
                THEN LET n == normalizeDates(cur.date["DTSTART"], cur.date["DTEND"], z, now)
                     IN  IF n.threw THEN [threw |-> TRUE, events |-> <<>>]
                         ELSE Scan(lines, i + 1, NoCur, Append(events, EventOf(cur, n)), z, now)
                ELSE Scan(lines, i + 1, NoCur, events, z, now)
           ELSE IF ~cur.open THEN Scan(lines, i + 1, cur, events, z, now)
           ELSE IF line.kind = "nocolon" THEN Scan(lines, i + 1, cur, events, z, now)
           ELSE Scan(lines, i + 1, SetField(cur, line), events, z, now)

\* function parseICS(ics)
parseICS(lines, z, now) == Scan(lines, 1, NoCur, <<>>, z, now)

InitICS ==
  /\ run = [slots |-> 0, pool |-> {}]
  /\ Idle
  /\ job \in {[stage |-> "ics", lines |-> l, zone |-> UTC, now |-> t] :
                l \in IcsTexts, t \in DateNows}

ParseICS ==
  /\ job.stage = "ics"
  /\ job' = [stage |-> "scanned", lines |-> job.lines, zone |-> job.zone, now |-> job.now,
             result |-> parseICS(job.lines, job.zone, job.now)]
  /\ UNCHANGED web

SpecICS == InitICS /\ [][ParseICS]_vars

\* C16: parseICS never raises, whatever DTSTART and DTEND hold: it returns
\* its event list, every event with start and end set to valid instants.
C16_ParseNeverRaises ==
  job.stage = "scanned" => ~job.result.threw

\* The BEGIN:VEVENT whose block the END:VEVENT of line j closes: the most
\* recent one before j with no END:VEVENT in between; 0 when there is none.
Opener(lines, j) ==
  LET c == {i \in 1..(j - 1) :
              /\ lines[i] = BeginVEvent
              /\ \A k \in (i + 1)..(j - 1) : lines[k] # EndVEvent}
  IN  IF c = {} THEN 0 ELSE CHOOSE i \in c : \A k \in c : k <= i

\* The END:VEVENT lines reached inside a block
Closers(lines) == {j \in 1..Len(lines) : lines[j] = EndVEvent /\ Opener(lines, j) # 0}

\* The last line of lines[i+1 .. j-1] that sets `key` and is not left out; 0 when none
LastSetter(lines, i, j, key, out) ==
  LET c == {k \in (i + 1)..(j - 1) :
              k \notin out /\ lines[k].kind = "property" /\ KeyOf(lines[k]) = key}
  IN  IF c = {} THEN 0 ELSE CHOOSE k \in c : \A m \in c : m <= k

TextIn(lines, i, j, key, out) ==
  LET k == LastSetter(lines, i, j, key, out) IN IF k = 0 THEN "" ELSE lines[k].text
TokenIn(lines, i, j, key, out) ==
  LET k == LastSetter(lines, i, j, key, out) IN IF k = 0 THEN NoToken ELSE lines[k].tok

\* The event of the block closed at line j, its fields read from the block's
\* own lines other than those of `out`
BlockEvent(lines, j, out, z, now) ==
  LET i == Opener(lines, j)
      n == normalizeDates(TokenIn(lines, i, j, "DTSTART", out),
                          TokenIn(lines, i, j, "DTEND", out), z, now)
  IN  [start |-> n.start, end |-> n.end, isAllDay |-> n.isAllDay,
       summary  |-> TextIn(lines, i, j, "SUMMARY", out),
       location |-> TextIn(lines, i, j, "LOCATION", out),
       url      |-> TextIn(lines, i, j, "URL", out),
       uid      |-> TextIn(lines, i, j, "UID", out),
       calendar |-> "Laget.se"]

\* One event per closed block, in document order
BlockEvents(lines, out, z, now) ==
  LET c == Closers(lines)
  IN  [n \in 1..Cardinality(c) |->
         BlockEvent(lines,
                    CHOOSE j \in c : Cardinality({k \in c : k < j}) = n - 1,
                    out, z, now)]

\* C19: parseICS emits exactly one event per END:VEVENT reached inside a
\* block, in document order, each with the fields set by the lines between
\* its own most recent BEGIN:VEVENT and its END:VEVENT, the last occurrence
\* of a field winning; nothing for an unterminated block or a stray
\* END:VEVENT.
C19_OneEventPerClosedBlock ==
  job.stage = "scanned" =>
    /\ ~job.result.threw
    /\ job.result.events = BlockEvents(job.lines, {}, job.zone, job.now)

\* The lines that open or close a block (of any type)
Delimiter(line) ==
  \/ line \in {BeginVEvent, EndVEvent}
  \/ line.kind = "property" /\ KeyOf(line) \in {"BEGIN", "END"}

\* The property lines that lie inside a BEGIN:VALARM ... END:VALARM block
AlarmLines(lines) ==
  {k \in 1..Len(lines) :
     /\ lines[k].kind = "property" /\ ~Delimiter(lines[k])
     /\ \E b \in 1..(k - 1), e \in (k + 1)..Len(lines) :
          /\ lines[b] = TextLine(<<"BEGIN">>, "VALARM")
          /\ lines[e] = TextLine(<<"END">>, "VALARM")
          /\ \A m \in (b + 1)..(e - 1) : ~Delimiter(lines[m])}

\* C20: a property line inside a block of another type than VEVENT, at top
\* level or nested in a VEVENT, changes no field of an emitted event: the
\* events are those of the same text without these lines.
C20_OtherBlocksIgnored ==
  (job.stage = "scanned" /\ ~job.result.threw) =>
    job.result.events = BlockEvents(job.lines, AlarmLines(job.lines), job.zone, job.now)

\* ------------------------------------------------------------------
\* parseRSS: the order of the items (index.js:290)
\* ------------------------------------------------------------------

MaxItems == 4          \* most items drawn

\* The pubDate of an item: "" (no <pubDate>), a string Date.parse cannot
\* read, or a date with its time value.
PubDate(kind, t) == [kind |-> kind, t |-> t]
PubDates == {PubDate("missing", 0), PubDate("unparseable", 0),
             PubDate("date", 1), PubDate("date", 3)}

\* Date.parse(0), that is Date.parse("0"), is left to the implementation:
\* NaN, or the time value of a date (1 January 2000 in V8), here between the
\* two dates drawn.
TimeOfZero == 2
ZeroParses == {PubDate("unparseable", 0), PubDate("date", TimeOfZero)}

\* The items in document order, before the sort
Items(dates) == [i \in 1..Len(dates) |-> [id |-> i, pubDate |-> dates[i]]]
ItemLists == {Items(d) : d \in UNION {[1..n -> PubDates] : n \in 0..MaxItems}}

\* Date.parse(x.pubDate || 0): a time value, or NaN
DateParse(pubDate, zero) ==
  LET v == IF pubDate.kind = "missing" THEN zero ELSE pubDate
  IN  IF v.kind = "date" THEN [nan |-> FALSE, t |-> v.t] ELSE [nan |-> TRUE, t |-> 0]

\* (a, b) => Date.parse(b.pubDate||0) - Date.parse(a.pubDate||0), as the sort
\* reads it: a NaN result counts as +0
CompareNewestFirst(a, b, zero) ==
  LET x == DateParse(b.pubDate, zero)
      y == DateParse(a.pubDate, zero)
  IN  IF x.nan \/ y.nan THEN 0 ELSE x.t - y.t

\* The comparator orders the items consistently: "compares equal" is
\* transitive among them
Consistent(items, zero) ==
  \A i, j, k \in 1..Len(items) :
    (CompareNewestFirst(items[i], items[j], zero) = 0 /\
     CompareNewestFirst(items[j], items[k], zero) = 0)
      => CompareNewestFirst(items[i], items[k], zero) = 0

RECURSIVE InsertItem(_, _, _)
InsertItem(item, sorted, zero) ==
  IF sorted = <<>> THEN <<item>>
  ELSE IF CompareNewestFirst(Head(sorted), item, zero) <= 0
       THEN <<Head(sorted)>> \o InsertItem(item, Tail(sorted), zero)
       ELSE <<item>> \o sorted

RECURSIVE StableSort(_, _)
StableSort(items, zero) ==
  IF items = <<>> THEN <<>>
  ELSE InsertItem(items[Len(items)], StableSort(SubSeq(items, 1, Len(items) - 1), zero), zero)

Rearrangements(items) ==
  {[i \in 1..Len(items) |-> items[p[i]]] :
     p \in {q \in [1..Len(items) -> 1..Len(items)] :
              \A i, j \in 1..Len(items) : q[i] = q[j] => i = j}}

\* items.sort(comparator): the stable sort when the comparator is consistent,
\* an order left to the implementation when it is not
SortOutcomes(items, zero) ==
  IF Consistent(items, zero) THEN {StableSort(items, zero)} ELSE Rearrangements(items)

InitRSS ==
  /\ run = [slots |-> 0, pool |-> {}]
  /\ Idle
  /\ job \in {[stage |-> "items", items |-> l, zero |-> z] :
                l \in ItemLists, z \in ZeroParses}

SortItems ==
  /\ job.stage = "items"
  /\ \E sorted \in SortOutcomes(job.items, job.zero) :
       job' = [stage |-> "sorted", items |-> job.items, zero |-> job.zero,
               result |-> sorted]
  /\ UNCHANGED web

SpecRSS == InitRSS /\ [][SortItems]_vars

\* C17: in the list parseRSS returns, an item whose pubDate is missing or
\* cannot be parsed never comes before an item with a parseable pubDate, and
\* any two items with parseable dates come newest first.
C17_NewestFirstUnparseableLast ==
  job.stage = "sorted" =>
    \A i, j \in 1..Len(job.result) :
      (i < j /\ job.result[j].pubDate.kind = "date") =>
        /\ job.result[i].pubDate.kind = "date"
        /\ job.result[i].pubDate.t >= job.result[j].pubDate.t

\* ------------------------------------------------------------------
\* The text fields of a news item (index.js:281, 285, 292-297, 313-318)
\* ------------------------------------------------------------------

MaxText == 5           \* longest element content drawn, in pieces

\* Text is a sequence of pieces, each a run of characters the patterns read
\* as a whole: "<", ">", a letter, a space, the entities, the second half
\* of a doubly encoded entity, and the two CDATA delimiters.
CDataOpen == "<![CDATA["
CDataClose == "]]>"
Pieces == {"<", ">", "x", " ", "&lt;", "&gt;", "&amp;", "lt;", CDataOpen, CDataClose}
Contents == UNION {[1..n -> Pieces] : n \in 0..MaxText}

\* const m = xml.match(re): null, or m[1], the content of the element
NoMatch == [found |-> FALSE, inner |-> <<>>]
Matched(inner) == [found |-> TRUE, inner |-> inner]

\* Index of the first piece of s that is p; 0 when there is none
IndexOf(s, p) ==
  LET c == {i \in 1..Len(s) : s[i] = p}
  IN  IF c = {} THEN 0 ELSE CHOOSE i \in c : \A j \in c : i <= j

\* function stripCDATA(s): each <![CDATA[ up to the nearest ]]> is replaced
\* by what lies between; the replacement is not scanned again
RECURSIVE stripCDATA(_)
stripCDATA(s) ==
  IF s = <<>> THEN <<>>
  ELSE LET close == IndexOf(Tail(s), CDataClose)
       IN  IF Head(s) = CDataOpen /\ close > 0
           THEN SubSeq(Tail(s), 1, close - 1) \o
                stripCDATA(SubSeq(Tail(s), close + 1, Len(Tail(s))))
           ELSE <<Head(s)>> \o stripCDATA(Tail(s))

\* .trim()
RECURSIVE trim(_)
trim(s) ==
  IF s # <<>> /\ Head(s) = " " THEN trim(Tail(s))
  ELSE IF s # <<>> /\ s[Len(s)] = " " THEN trim(SubSeq(s, 1, Len(s) - 1))
  ELSE s

\* A delimiter left by stripCDATA is plain characters to the later patterns:
\* "<" and "![CDATA[", "]]" and ">"
RECURSIVE Characters(_)
Characters(s) ==
  IF s = <<>> THEN <<>>
  ELSE (IF Head(s) = CDataOpen THEN <<"<", "![CDATA[">>
        ELSE IF Head(s) = CDataClose THEN <<"]]", ">">>
        ELSE <<Head(s)>>) \o Characters(Tail(s))

\* .replace(/<\/?[^>]+>/g, ""): a "<", at least one character other than
\* ">", and the next ">"
RECURSIVE RemoveTags(_)
RemoveTags(s) ==
  IF s = <<>> THEN <<>>
  ELSE LET gt == IndexOf(Tail(s), ">")
       IN  IF Head(s) = "<" /\ gt > 1
           THEN RemoveTags(SubSeq(Tail(s), gt + 1, Len(Tail(s))))
           ELSE <<Head(s)>> \o RemoveTags(Tail(s))

\* .replace(/\s+/g, " ")
RECURSIVE CollapseSpaces(_)
CollapseSpaces(s) ==
  IF Len(s) < 2 THEN s
  ELSE IF s[1] = " " /\ s[2] = " " THEN CollapseSpaces(Tail(s))
  ELSE <<Head(s)>> \o CollapseSpaces(Tail(s))

\* function stripTags(s)
stripTags(s) == trim(CollapseSpaces(RemoveTags(Characters(s))))

\* function decodeHTML(s): one pass over the entities of the map
decodeHTML(s) ==
  [i \in 1..Len(s) |->
     CASE s[i] = "&lt;" -> "<" [] s[i] = "&gt;" -> ">" [] s[i] = "&amp;" -> "&"
       [] OTHER -> s[i]]

\* function pickTag(xml, tag), from the match
pickTag(m) == IF m.found THEN Matched(trim(stripCDATA(m.inner))) ELSE NoMatch

\* decodeHTML(stripTags(pickTag(block, "title") || "")); null and "" are falsy
TextField(m) ==
  LET picked == pickTag(m)
  IN  decodeHTML(stripTags(IF picked.found THEN picked.inner ELSE <<>>))

InitText ==
  /\ run = [slots |-> 0, pool |-> {}]
  /\ Idle
  /\ job \in {[stage |-> "element", match |-> m] :
                m \in {NoMatch} \cup {Matched(c) : c \in Contents}}

\* title: / description: of items.push({...})
PickText ==
  /\ job.stage = "element"
  /\ job' = [stage |-> "text", match |-> job.match, value |-> TextField(job.match)]
  /\ UNCHANGED web

SpecText == InitText /\ [][PickText]_vars

\* The text holds a tag: a "<", at least one character other than ">", and
\* a ">" (a CDATA wrapper is one too)
HasTag(s) ==
  \E i, j \in 1..Len(s) :
    /\ s[i] = "<" /\ s[j] = ">" /\ j > i + 1
    /\ \A k \in (i + 1)..(j - 1) : s[k] # ">"

\* C18: the title and the description of a news item hold no markup tag and
\* no CDATA wrapper, also none that arises from decoding &lt; and &gt;.
C18_NoTagInText ==
  job.stage = "text" => ~HasTag(job.value)

\* The instant a time-bearing token stands for by its own encoding
OwnEncoding(tok, z) ==
  IF tok.shape = "utc" THEN isoFromICSUTC(tok) ELSE toUTCStringFromLocalDateTime(tok, z)

\* C21: when DTSTART is a UTC or a floating local date-time, the event is
\* not all-day; its end equals its start when DTEND is absent, empty, a bare
\* date or anything else that is no date-time, and is DTEND read by the rule
\* of DTEND's own encoding otherwise, also when that is not DTSTART's.
C21_EndOfTimedEvent ==
  job.stage = "dates" =>
    \A p \in job.ran :
      LET o == job.out[p]
      IN  (~o.threw /\ job.dtstart.shape \in {"utc", "local"}) =>
            /\ ~o.isAllDay
            /\ o.end = IF job.dtend.shape \in {"utc", "local"}
                       THEN OwnEncoding(job.dtend, job.zone[p]).t
                       ELSE o.start

\* A UTC start with a floating local end that is read on its own
C21_Witness ==
  /\ job.stage = "dates"
  /\ \E p \in job.ran :
       /\ ~job.out[p].threw
       /\ job.dtstart.shape = "utc" /\ job.dtend.shape = "local"
       /\ job.out[p].end # job.out[p].start
       /\ job.out[p].end = HoursPerDay * job.dtend.day + job.dtend.hour

\* ------------------------------------------------------------------
\* eventsJSON from the parse to the window (index.js:52-70) on a feed of one
\* VEVENT whose DTSTART is in none of the three encodings
\* ------------------------------------------------------------------

\* The feed: BEGIN:VEVENT, the DTSTART and DTEND lines that are present,
\* END:VEVENT. The clock is read at parsedAt inside normalizeDates and at
\* filterAt for `now` (index.js:54), in half days; days is any value whose
\* span is a whole number of half days.
InitStamp ==
  /\ run = [slots |-> 0, pool |-> {}]
  /\ Idle
  /\ job \in {[stage |-> "feed",
               lines |-> <<BeginVEvent>> \o s \o e \o <<EndVEvent>>,
               parsedAt |-> t, filterAt |-> t + d,
               query |-> [days |-> v, limit |-> NoParam]] :
                s \in {<<>>, <<DateLine(<<"DTSTART">>, Token("empty", 0, 0))>>,
                       <<DateLine(<<"DTSTART">>, Token("other", 0, 0))>>},
                e \in {<<>>, <<DateLine(<<"DTEND">>, Token("date", 1, 0))>>,
                       <<DateLine(<<"DTEND">>, Token("utc", 0, 1))>>},
                t \in Nows, d \in {0, 1},
                v \in {w \in Raw : EffectiveDays(w).frac \in {<<>>, <<"5">>}}}

\* const events = parseICS(icsText) ... events: upcoming.slice(0, limit)
FilterStamped ==
  /\ job.stage = "feed"
  /\ LET parsed == parseICS(job.lines, UTC, job.parsedAt)
     IN  job' = [stage |-> "window", lines |-> job.lines,
                 parsedAt |-> job.parsedAt, filterAt |-> job.filterAt,
                 query |-> job.query, threw |-> parsed.threw, parsed |-> parsed.events,
                 payload |-> EventsPayloadOf(parsed.events, job.query, job.filterAt)]
  /\ UNCHANGED web

SpecStamp == InitStamp /\ [][FilterStamped]_vars

\* C22: an event whose DTSTART is absent or in none of the three encodings
\* gets start = end = the instant of parsing, and is kept by the window of
\* events-JSON for every value of days when parsing and filtering fall on the
\* same UTC calendar day.
C22_StampedNowIsKept ==
  job.stage = "window" =>
    /\ ~job.threw
    /\ Len(job.parsed) = 1
    /\ job.parsed[1].start = job.parsedAt /\ job.parsed[1].end = job.parsedAt
    /\ ~job.parsed[1].isAllDay
    /\ (job.parsedAt \div DayLen = job.filterAt \div DayLen) =>
         \E k \in 1..Len(job.payload.events) : job.payload.events[k] = job.parsed[1]

\* Stamped in the first half of a day, filtered in the second half, with the
\* smallest days, and kept
C22_Witness ==
  /\ job.stage = "window"
  /\ job.parsedAt < job.filterAt
  /\ job.parsedAt \div DayLen = job.filterAt \div DayLen
  /\ EffectiveDays(job.query.days) = Whole(1)
  /\ job.payload.events = job.parsed
  /\ Len(job.parsed) = 1
====
